---- MODULE Spec2Model ----
(***************************************************************************)
(* Projects page scripts of blog-with-notion.                              *)
(*                                                                         *)
(*  - the two-axis filter controller (project type AND technology), the    *)
(*    DOMContentLoaded handler of the projects page script;                *)
(*  - ProjectsManager (hugo/assets/ts/projects.ts): the single-axis filter *)
(*    with its fade timers, the carousels and the scroll parallax.         *)
(*                                                                         *)
(* Text is a sequence of one-character strings, so that trim() and the     *)
(* default sort() are computed and not assumed.  The variable `unit` says  *)
(* which controller a behaviour exercises: the controllers share no script *)
(* state, so each is explored on its own.                                  *)
(***************************************************************************)
EXTENDS Integers, Sequences, FiniteSets, TLC

VARIABLES unit,
          \* ---- two-axis controller ----
          projectCards,          \* the rendered .project-card elements (markup, fixed)
          currentFilter,         \* [type, tech]
          typeFiltersContainer,  \* buttons of #type-filters, in document order
          techFiltersContainer,  \* buttons of #tech-filters, in document order
          hidden,                \* card index -> classList has 'hidden'
          emptyState,            \* emptyState.style.display
          projectsGrid,          \* projectsGrid.style.display
          \* ---- the window ----
          timers,                \* pending setTimeout callbacks, one group per handler run that set some
          \* ---- ProjectsManager.setupFiltering ----
          header,                \* the page has a .projects-header
          techCards,             \* card index -> texts of its .tech-tag elements (markup, fixed)
          filterButtons,         \* the .filter-btn elements, in document order
          cardClass,             \* card index -> [hidden, fadeOut]: classList of the card
          cardAnimation,         \* card index -> card.style.animation
          \* ---- ProjectsManager.setupCarousels, one carousel ----
          slides,                \* number of .project-slide elements (markup, fixed)
          indicators,            \* number of .indicator elements (markup, fixed)
          currentSlide,
          slideActive,           \* slide index (from 0) -> classList has 'active'
          indicatorActive,       \* indicator index (from 0) -> classList has 'active'
          autoplayInterval,      \* the id the closure holds, 0 for undefined
          intervals,             \* ids of the running setInterval timers
          nextTimerId,           \* the id the next setInterval returns
          hovering,              \* the pointer is over the carousel
          \* ---- ProjectsManager.setupParallaxEffect ----
          pageYOffset,
          ticking,
          frameRequests,         \* pending requestAnimationFrame(handleScroll) callbacks
          tickTimers,            \* pending setTimeout(() => ticking = false, 100) callbacks
          transform,             \* <<translateY last written by handleScroll>>, <<>> if none
          \* ---- history ----
          lastClicked            \* axis -> index of the last clicked button, 0 if none

twoAxisVars == <<projectCards, currentFilter, typeFiltersContainer, techFiltersContainer,
                 hidden, emptyState, projectsGrid>>

filterVars == <<header, techCards, filterButtons, cardClass, cardAnimation>>

carouselVars == <<slides, indicators, currentSlide, slideActive, indicatorActive,
                  autoplayInterval, intervals, nextTimerId, hovering>>

parallaxVars == <<pageYOffset, ticking, frameRequests, tickTimers, transform>>

vars == <<unit, timers, twoAxisVars, filterVars, carouselVars, parallaxVars, lastClicked>>

----------------------------------------------------------------------------
(* Bounds *)
MaxCards == 2
MaxPending == 4      \* pending setTimeout callbacks
MaxSlides == 3
MaxTimerId == 4      \* setInterval calls of a behaviour
MaxFrames == 2       \* pending animation frame callbacks

----------------------------------------------------------------------------
(* Text *)

ALL == <<"a", "l", "l">>

\* UTF-16 code units of the characters used, for Array.prototype.sort()
CharCode == [c \in {" ", "A", "B", "a", "l", "x", "y"} |->
               CASE c = " " -> 32 [] c = "A" -> 65 [] c = "B" -> 66
                 [] c = "a" -> 97 [] c = "l" -> 108 [] c = "x" -> 120 [] c = "y" -> 121]

IsWhiteSpace(c) == c = " "

RECURSIVE TrimStart(_)
TrimStart(s) == IF s # <<>> /\ IsWhiteSpace(Head(s)) THEN TrimStart(Tail(s)) ELSE s

RECURSIVE TrimEnd(_)
TrimEnd(s) == IF s # <<>> /\ IsWhiteSpace(s[Len(s)]) THEN TrimEnd(SubSeq(s, 1, Len(s) - 1)) ELSE s

\* String.prototype.trim
Trim(s) == TrimEnd(TrimStart(s))

\* a < b in the order of the default sort(): by code units, a proper prefix first
RECURSIVE StrLess(_, _)
StrLess(a, b) ==
    IF b = <<>> THEN FALSE
    ELSE IF a = <<>> THEN TRUE
    ELSE IF CharCode[Head(a)] # CharCode[Head(b)] THEN CharCode[Head(a)] < CharCode[Head(b)]
    ELSE StrLess(Tail(a), Tail(b))

\* insert x into the sorted sequence s, after every element that is not greater
RECURSIVE InsertSorted(_, _)
InsertSorted(x, s) ==
    IF s = <<>> THEN <<x>>
    ELSE IF StrLess(x, Head(s)) THEN <<x>> \o s
    ELSE <<Head(s)>> \o InsertSorted(x, Tail(s))

\* Array.prototype.sort() without a comparator
RECURSIVE SortDefault(_)
SortDefault(s) == IF s = <<>> THEN <<>> ELSE InsertSorted(s[Len(s)], SortDefault(SubSeq(s, 1, Len(s) - 1)))

\* Set.prototype.add on a Set kept in insertion order
SetAdd(s, x) == IF \E i \in 1..Len(s) : s[i] = x THEN s ELSE Append(s, x)

Includes(s, x) == \E i \in 1..Len(s) : s[i] = x

SeqUpTo(S, n) == UNION {[1..k -> S] : k \in 0..n}

----------------------------------------------------------------------------
(* Markup of the page: what the scripts read and never write *)

\* data-project-type: absent, empty, or a label
TypeAttrs == {[hasType |-> FALSE, type |-> <<>>],
              [hasType |-> TRUE, type |-> <<>>],
              [hasType |-> TRUE, type |-> <<"A">>],
              [hasType |-> TRUE, type |-> <<"B">>]}

\* textContent of the .project-tag-badge elements of a card, in document order:
\* no badge, "x " (to be trimmed), a blank badge, and "y" followed by "x "
BadgeLists == {<<>>, <<<<"x", " ">>>>, <<<<" ">>>>, <<<<"y">>, <<"x", " ">>>>}

Cards == {[hasType |-> t.hasType, type |-> t.type, tags |-> g] : t \in TypeAttrs, g \in BadgeLists}

----------------------------------------------------------------------------
(* Two-axis controller *)

createFilterButton(value, isActive) == [value |-> value, active |-> isActive]

\* typeSet after the scan of the cards
RECURSIVE typeSet(_)
typeSet(cards) ==
    IF cards = <<>> THEN <<>>
    ELSE LET card == cards[Len(cards)]
             rest == typeSet(SubSeq(cards, 1, Len(cards) - 1))
         IN  IF card.hasType /\ card.type # <<>> THEN SetAdd(rest, card.type) ELSE rest

initTypeFilters(cards) ==
    LET sorted == SortDefault(typeSet(cards))
    IN  <<createFilterButton(ALL, TRUE)>> \o
        [i \in 1..Len(sorted) |-> createFilterButton(sorted[i], FALSE)]

\* as BadgeText, without trim()
BadgeTextRaw(tag) == tag

\* the text initTechFilters extracts from a badge
BadgeText(tag) == Trim(tag)

\* every badge text of the page, in document order
RECURSIVE allBadges(_)
allBadges(cards) ==
    IF cards = <<>> THEN <<>>
    ELSE LET card == cards[1]
         IN  [i \in 1..Len(card.tags) |-> BadgeText(card.tags[i])] \o allBadges(Tail(cards))

RECURSIVE technologySet(_)
technologySet(badges) ==
    IF badges = <<>> THEN <<>>
    ELSE SetAdd(technologySet(SubSeq(badges, 1, Len(badges) - 1)), badges[Len(badges)])

techCount(badges, tech) == Cardinality({i \in 1..Len(badges) : badges[i] = tech})

\* as InsertByCount, the comparison the other way round: techCount[a] - techCount[b]
RECURSIVE InsertByCountAscending(_, _, _)
InsertByCountAscending(x, s, badges) ==
    IF s = <<>> THEN <<x>>
    ELSE IF techCount(badges, x) - techCount(badges, Head(s)) < 0 THEN <<x>> \o s
    ELSE <<Head(s)>> \o InsertByCountAscending(x, Tail(s), badges)


\* insert x into s, sorted by descending count, after every element whose count is not smaller
RECURSIVE InsertByCount(_, _, _)
InsertByCount(x, s, badges) ==
    IF s = <<>> THEN <<x>>
    ELSE IF techCount(badges, Head(s)) - techCount(badges, x) < 0 THEN <<x>> \o s
    ELSE <<Head(s)>> \o InsertByCount(x, Tail(s), badges)

\* sort((a, b) => techCount[b] - techCount[a]), stable
RECURSIVE sortedTechs(_, _)
sortedTechs(s, badges) ==
    IF s = <<>> THEN <<>>
    ELSE InsertByCount(s[Len(s)], sortedTechs(SubSeq(s, 1, Len(s) - 1), badges), badges)

initTechFilters(cards) ==
    LET badges == allBadges(cards)
        sorted == sortedTechs(technologySet(badges), badges)
    IN  <<createFilterButton(ALL, TRUE)>> \o
        [i \in 1..Len(sorted) |-> createFilterButton(sorted[i], FALSE)]

\* cardTechs of applyFilters
cardTechs(card) == [i \in 1..Len(card.tags) |-> Trim(card.tags[i])]

\* as typeMatch, without the 'all' case
typeMatchNoAll(card, filter) == card.hasType /\ card.type = filter.type


typeMatch(card, filter) == filter.type = ALL \/ (card.hasType /\ card.type = filter.type)

techMatch(card, filter) == filter.tech = ALL \/ Includes(cardTechs(card), filter.tech)

\* the part of the page the handlers write
Dom == [currentFilter |-> currentFilter,
        typeFiltersContainer |-> typeFiltersContainer,
        techFiltersContainer |-> techFiltersContainer,
        hidden |-> hidden,
        emptyState |-> emptyState, projectsGrid |-> projectsGrid,
        timers |-> timers]

\* as applyCard, with OR for AND
applyCardAnyAxis(card, filter, wasHidden) == ~(typeMatch(card, filter) \/ techMatch(card, filter))

\* as applyCard, the else branch with classList.toggle('hidden')
applyCardToggle(card, filter, wasHidden) ==
    IF typeMatch(card, filter) /\ techMatch(card, filter) THEN FALSE ELSE ~wasHidden

\* one card of the forEach of applyFilters: does it end with the class 'hidden'
applyCard(card, filter, wasHidden) == ~(typeMatch(card, filter) /\ techMatch(card, filter))

\* style.display of #empty-state and of #projects-grid for a visible count
emptyStateDisplay(visibleCount) == IF visibleCount = 0 THEN "block" ELSE "none"

\* as projectsGridDisplay, the grid never taken away
projectsGridAlwaysShown(visibleCount) == "grid"


projectsGridDisplay(visibleCount) == IF visibleCount = 0 THEN "none" ELSE "grid"

\* as applyFilters, the cards hidden from a 300 ms timer as setupFiltering does
applyFiltersDeferred(cards, d) ==
    LET N == Len(cards)
        miss == {i \in 1..N : applyCard(cards[i], d.currentFilter, d.hidden[i])}
    IN  [d EXCEPT !.hidden = [i \in 1..N |-> d.hidden[i] /\ i \in miss],
                  !.emptyState = emptyStateDisplay(N - Cardinality(miss)),
                  !.projectsGrid = projectsGridDisplay(N - Cardinality(miss)),
                  !.timers = Append(d.timers, [i \in 1..N |-> [delay |-> 300, run |-> "hide", card |-> i]])]

\* style.animation of a shown card is reset and set again: written, never read, not modelled
applyFilters(cards, d) ==
    LET N == Len(cards)
        nowHidden == [i \in 1..N |-> applyCard(cards[i], d.currentFilter, d.hidden[i])]
        visibleCount == Cardinality({i \in 1..N : ~nowHidden[i]})
    IN  [d EXCEPT !.hidden = nowHidden,
                  !.emptyState = emptyStateDisplay(visibleCount),
                  !.projectsGrid = projectsGridDisplay(visibleCount)]

\* as activate, the siblings keep 'active'
activateKeepSiblings(container, idx) ==
    [j \in 1..Len(container) |-> [container[j] EXCEPT !.active = (container[j].active \/ j = idx)]]

\* siblings.forEach(remove 'active'); btn.classList.add('active')
activate(container, idx) == [j \in 1..Len(container) |-> [container[j] EXCEPT !.active = (j = idx)]]

\* the value the click listener of a button stores
clickedValue(btn) == btn.value

\* as setFilter, the other axis goes back to 'all'
setFilterResetOther(filter, filterType, value) == [[type |-> ALL, tech |-> ALL] EXCEPT ![filterType] = value]

\* currentFilter[filterType] = value
setFilter(filter, filterType, value) == [filter EXCEPT ![filterType] = value]

Container(d, filterType) == IF filterType = "type" THEN d.typeFiltersContainer ELSE d.techFiltersContainer

\* the click listener of button idx of the filterType container
clickListener(cards, d, filterType, idx) ==
    LET value == clickedValue(Container(d, filterType)[idx])
        d1 == IF filterType = "type"
              THEN [d EXCEPT !.typeFiltersContainer = activate(d.typeFiltersContainer, idx)]
              ELSE [d EXCEPT !.techFiltersContainer = activate(d.techFiltersContainer, idx)]
        d2 == [d1 EXCEPT !.currentFilter = setFilter(d.currentFilter, filterType, value)]
    IN  applyFilters(cards, d2)

TwoAxisIdle ==
    /\ projectCards = <<>>
    /\ currentFilter = [type |-> ALL, tech |-> ALL]
    /\ typeFiltersContainer = <<>>
    /\ techFiltersContainer = <<>>
    /\ hidden = <<>>
    /\ emptyState = ""
    /\ projectsGrid = ""

\* the DOMContentLoaded handler: the cards are as rendered, no style is written
InitTwoAxis ==
    /\ projectCards \in SeqUpTo(Cards, MaxCards)
    /\ currentFilter = [type |-> ALL, tech |-> ALL]
    /\ typeFiltersContainer = initTypeFilters(projectCards)
    /\ techFiltersContainer = initTechFilters(projectCards)
    /\ hidden = [i \in 1..Len(projectCards) |-> FALSE]
    /\ emptyState = ""
    /\ projectsGrid = ""

Click(filterType, idx) ==
    /\ unit = "twoAxis"
    /\ idx \in 1..Len(Container(Dom, filterType))
    /\ LET d == clickListener(projectCards, Dom, filterType, idx)
       IN  /\ currentFilter' = d.currentFilter
           /\ typeFiltersContainer' = d.typeFiltersContainer
           /\ techFiltersContainer' = d.techFiltersContainer
           /\ hidden' = d.hidden
           /\ emptyState' = d.emptyState
           /\ projectsGrid' = d.projectsGrid
           /\ timers' = d.timers
    /\ lastClicked' = [lastClicked EXCEPT ![filterType] = idx]
    /\ UNCHANGED <<unit, projectCards, filterVars, carouselVars, parallaxVars>>

ClickType == \E idx \in 1..Len(typeFiltersContainer) : Click("type", idx)

ClickTech == \E idx \in 1..Len(techFiltersContainer) : Click("tech", idx)

----------------------------------------------------------------------------
(* ProjectsManager.setupFiltering: the single-axis controller *)

\* techTags: the trimmed text of every .tech-tag of the document, a Set
RECURSIVE techTags(_)
techTags(cards) ==
    IF cards = <<>> THEN <<>>
    ELSE LET card == cards[Len(cards)]
             rest == techTags(SubSeq(cards, 1, Len(cards) - 1))
             RECURSIVE addAll(_, _)
             addAll(set, k) == IF k > Len(card) THEN set ELSE addAll(SetAdd(set, Trim(card[k])), k + 1)
         IN  addAll(rest, 1)

\* the buttons of filterHTML; none when the header is missing or no tag is found
setupFiltering(hasHeader, cards) ==
    LET tags == techTags(cards)
    IN  IF ~hasHeader \/ Len(tags) = 0 THEN <<>>
        ELSE <<[filter |-> ALL, active |-> TRUE]>> \o
             [i \in 1..Len(tags) |-> [filter |-> tags[i], active |-> FALSE]]

\* filterButtons.forEach(remove 'active'); btn.classList.add('active')
setActive(buttons, idx) == [j \in 1..Len(buttons) |-> [buttons[j] EXCEPT !.active = (j = idx)]]

filterMatch(card, filter) == filter = ALL \/ Includes([i \in 1..Len(card) |-> Trim(card[i])], filter)

FadeInDelay == 50
FadeOutDelay == 300

\* the classes of one card after the click, and the timer the click sets for it
filterCardClass(card, filter, class) ==
    IF filterMatch(card, filter) THEN [hidden |-> FALSE, fadeOut |-> FALSE]
    ELSE [class EXCEPT !.fadeOut = TRUE]

filterCardTimer(card, filter, i) ==
    IF filterMatch(card, filter) THEN [delay |-> FadeInDelay, run |-> "animate", card |-> i]
    ELSE [delay |-> FadeOutDelay, run |-> "hide", card |-> i]

PendingTimers == IF timers = <<>> THEN 0
                 ELSE LET RECURSIVE sum(_)
                          sum(k) == IF k = 0 THEN 0 ELSE Len(timers[k]) + sum(k - 1)
                      IN  sum(Len(timers))

FilterIdle ==
    /\ header = FALSE
    /\ techCards = <<>>
    /\ filterButtons = <<>>
    /\ cardClass = <<>>
    /\ cardAnimation = <<>>

InitFilter ==
    /\ header \in BOOLEAN
    /\ techCards \in SeqUpTo(BadgeLists, MaxCards)
    /\ filterButtons = setupFiltering(header, techCards)
    /\ cardClass = [i \in 1..Len(techCards) |-> [hidden |-> FALSE, fadeOut |-> FALSE]]
    /\ cardAnimation = [i \in 1..Len(techCards) |-> ""]

\* the click listener of filter button idx
FilterClick(idx) ==
    /\ unit = "filter"
    /\ idx \in 1..Len(filterButtons)
    /\ PendingTimers + Len(techCards) <= MaxPending
    /\ LET filter == filterButtons[idx].filter
           N == Len(techCards)
       IN  /\ filterButtons' = setActive(filterButtons, idx)
           /\ cardClass' = [i \in 1..N |-> filterCardClass(techCards[i], filter, cardClass[i])]
           /\ timers' = IF N = 0 THEN timers
                        ELSE Append(timers, [i \in 1..N |-> filterCardTimer(techCards[i], filter, i)])
    /\ lastClicked' = [lastClicked EXCEPT !.filter = idx]
    /\ UNCHANGED <<unit, header, techCards, cardAnimation, twoAxisVars, carouselVars, parallaxVars>>

FilterButtonClick == \E idx \in 1..Len(filterButtons) : FilterClick(idx)

\* Timer k of group g is due no later than every other pending timer, for some times of
\* the clicks: no timer set by an earlier click has a delay as short, and none set by the
\* same click has a shorter delay or the same delay and an earlier place.
MayFire(g, k) ==
    LET t == timers[g][k]
    IN  /\ \A h \in 1..(g - 1) : \A j \in 1..Len(timers[h]) : timers[h][j].delay > t.delay
        /\ \A j \in 1..Len(timers[g]) :
              j # k => \/ timers[g][j].delay > t.delay
                       \/ (timers[g][j].delay = t.delay /\ j > k)

RemoveAt(s, k) == SubSeq(s, 1, k - 1) \o SubSeq(s, k + 1, Len(s))

\* the queue without timer k of group g; a group that ran dry is dropped
WithoutTimer(g, k) ==
    IF Len(timers[g]) = 1 THEN RemoveAt(timers, g)
    ELSE [timers EXCEPT ![g] = RemoveAt(timers[g], k)]

\* a callback of setupFiltering runs
TimerFires ==
    \E g \in 1..Len(timers) : \E k \in 1..Len(timers[g]) :
        /\ MayFire(g, k)
        /\ LET t == timers[g][k]
           IN  /\ unit = "filter"
               /\ IF t.run = "animate"
                  THEN /\ cardAnimation' = [cardAnimation EXCEPT ![t.card] = "fadeInUp"]
                       /\ UNCHANGED cardClass
                  ELSE /\ cardClass' = [cardClass EXCEPT ![t.card].hidden = TRUE]
                       /\ UNCHANGED cardAnimation
        /\ timers' = WithoutTimer(g, k)
        /\ UNCHANGED <<unit, header, techCards, filterButtons, lastClicked,
                       twoAxisVars, carouselVars, parallaxVars>>

----------------------------------------------------------------------------
(* ProjectsManager.setupCarousels: one carousel *)

\* as wrapIndex, without the wrap
wrapIndexNoWrap(index, n) == index

\* (index + slides.length) % slides.length
wrapIndex(index, n) == (index + n) % n

showSlide(index) ==
    /\ currentSlide' = wrapIndex(index, slides)
    /\ slideActive' = [i \in 0..(slides - 1) |-> i = wrapIndex(index, slides)]
    /\ indicatorActive' = [i \in 0..(indicators - 1) |-> i = wrapIndex(index, slides)]

nextSlide == showSlide(currentSlide + 1)

prevSlide == showSlide(currentSlide - 1)

\* the running intervals after clearInterval(id)
clearInterval(running, id) == running \ {id}

\* stopAutoplay(); startAutoplay()
restartAutoplay ==
    /\ nextTimerId <= MaxTimerId
    /\ intervals' = clearInterval(intervals, autoplayInterval) \cup {nextTimerId}
    /\ autoplayInterval' = nextTimerId
    /\ nextTimerId' = nextTimerId + 1

CarouselFrame == UNCHANGED <<unit, timers, slides, indicators, lastClicked,
                             twoAxisVars, filterVars, parallaxVars>>

CarouselIdle ==
    /\ slides = 0
    /\ indicators = 0
    /\ currentSlide = 0
    /\ slideActive = <<>>
    /\ indicatorActive = <<>>
    /\ autoplayInterval = 0
    /\ intervals = {}
    /\ nextTimerId = 1
    /\ hovering = FALSE

\* the first slide and indicator are rendered active; a carousel of one slide gets no listener
InitCarousel ==
    /\ slides \in 1..MaxSlides
    /\ indicators \in 0..MaxSlides
    /\ currentSlide = 0
    /\ slideActive = [i \in 0..(slides - 1) |-> i = 0]
    /\ indicatorActive = [i \in 0..(indicators - 1) |-> i = 0]
    /\ hovering = FALSE
    /\ IF slides <= 1
       THEN autoplayInterval = 0 /\ intervals = {} /\ nextTimerId = 1
       ELSE autoplayInterval = 1 /\ intervals = {1} /\ nextTimerId = 2

PrevClick ==
    /\ unit = "carousel" /\ slides > 1
    /\ prevSlide
    /\ restartAutoplay
    /\ UNCHANGED hovering
    /\ CarouselFrame

NextClick ==
    /\ unit = "carousel" /\ slides > 1
    /\ nextSlide
    /\ restartAutoplay
    /\ UNCHANGED hovering
    /\ CarouselFrame

IndicatorClick ==
    \E index \in 0..(indicators - 1) :
        /\ unit = "carousel" /\ slides > 1
        /\ showSlide(index)
        /\ restartAutoplay
        /\ UNCHANGED hovering
        /\ CarouselFrame

\* mouseenter, the pointer comes over the carousel: stopAutoplay
MouseEnter ==
    /\ unit = "carousel" /\ slides > 1
    /\ ~hovering /\ hovering' = TRUE
    /\ intervals' = clearInterval(intervals, autoplayInterval)
    /\ UNCHANGED <<currentSlide, slideActive, indicatorActive, autoplayInterval, nextTimerId>>
    /\ CarouselFrame

\* mouseleave, the pointer goes off the carousel: startAutoplay
MouseLeave ==
    /\ unit = "carousel" /\ slides > 1
    /\ hovering /\ hovering' = FALSE
    /\ nextTimerId <= MaxTimerId
    /\ intervals' = intervals \cup {nextTimerId}
    /\ autoplayInterval' = nextTimerId
    /\ nextTimerId' = nextTimerId + 1
    /\ UNCHANGED <<currentSlide, slideActive, indicatorActive>>
    /\ CarouselFrame

\* a running interval calls nextSlide
AutoplayTick ==
    \E id \in intervals :
        /\ unit = "carousel"
        /\ nextSlide
        /\ UNCHANGED <<autoplayInterval, intervals, nextTimerId, hovering>>
        /\ CarouselFrame

----------------------------------------------------------------------------
(* ProjectsManager.setupParallaxEffect *)

PageOffsets == {0, 100, 250}

\* yPos = -(scrolled * 0.5), in tenths of a pixel
yPos(scrolled) == -(scrolled * 5)

ParallaxFrame == UNCHANGED <<unit, timers, lastClicked, twoAxisVars, filterVars, carouselVars>>

ParallaxIdle ==
    /\ pageYOffset = 0
    /\ ticking = FALSE
    /\ frameRequests = 0
    /\ tickTimers = 0
    /\ transform = <<>>

InitParallax == ParallaxIdle

\* as Scroll, requestTick without the test of ticking
ScrollNoFlag ==
    \E y \in PageOffsets \ {pageYOffset} :
        /\ unit = "parallax"
        /\ pageYOffset' = y
        /\ frameRequests < MaxFrames
        /\ frameRequests' = frameRequests + 1
        /\ ticking' = TRUE
        /\ tickTimers' = tickTimers + 1
        /\ UNCHANGED transform
        /\ ParallaxFrame

\* the page scrolls and the scroll listener, requestTick, runs
Scroll ==
    \E y \in PageOffsets \ {pageYOffset} :
        /\ unit = "parallax"
        /\ pageYOffset' = y
        /\ IF ~ticking
           THEN /\ frameRequests < MaxFrames
                /\ frameRequests' = frameRequests + 1
                /\ ticking' = TRUE
                /\ tickTimers' = tickTimers + 1
           ELSE UNCHANGED <<frameRequests, ticking, tickTimers>>
        /\ UNCHANGED transform
        /\ ParallaxFrame

\* an animation frame runs handleScroll
AnimationFrame ==
    /\ unit = "parallax"
    /\ frameRequests > 0
    /\ frameRequests' = frameRequests - 1
    /\ transform' = <<yPos(pageYOffset)>>
    /\ UNCHANGED <<pageYOffset, ticking, tickTimers>>
    /\ ParallaxFrame

\* the 100 ms timer of requestTick runs
TickTimerFires ==
    /\ unit = "parallax"
    /\ tickTimers > 0
    /\ tickTimers' = tickTimers - 1
    /\ ticking' = FALSE
    /\ UNCHANGED <<pageYOffset, frameRequests, transform>>
    /\ ParallaxFrame

----------------------------------------------------------------------------
(* The page: one controller per behaviour *)

Init ==
    /\ timers = <<>>
    /\ lastClicked = [type |-> 0, tech |-> 0, filter |-> 0]
    /\ \/ unit = "twoAxis" /\ InitTwoAxis /\ FilterIdle /\ CarouselIdle /\ ParallaxIdle
       \/ unit = "filter" /\ TwoAxisIdle /\ InitFilter /\ CarouselIdle /\ ParallaxIdle
       \/ unit = "carousel" /\ TwoAxisIdle /\ FilterIdle /\ InitCarousel /\ ParallaxIdle
       \/ unit = "parallax" /\ TwoAxisIdle /\ FilterIdle /\ CarouselIdle /\ InitParallax

Next ==
    \/ ClickType
    \/ ClickTech
    \/ FilterButtonClick
    \/ TimerFires
    \/ PrevClick
    \/ NextClick
    \/ IndicatorClick
    \/ MouseEnter
    \/ MouseLeave
    \/ AutoplayTick
    \/ Scroll
    \/ AnimationFrame
    \/ TickTimerFires

Spec == Init /\ [][Next]_vars

----------------------------------------------------------------------------
(* Properties *)

TwoAxis == unit = "twoAxis"

\* the cards without the class 'hidden'
VisibleCards == {i \in 1..Len(projectCards) : ~hidden[i]}

\* the extracted values of the page: the type labels and the trimmed badge texts
TypeValues == {projectCards[i].type : i \in {k \in 1..Len(projectCards) : projectCards[k].hasType}}

TechValues == UNION {{Trim(projectCards[i].tags[k]) : k \in 1..Len(projectCards[i].tags)} :
                        i \in 1..Len(projectCards)}

ActiveButtons(container) == {j \in 1..Len(container) : container[j].active}

\* C1: in the two-axis controller the cards that are not hidden are exactly the cards c with
\* (selected type = 'all' or c.type = selected type) and (selected tech = 'all' or the
\* selected tech is one of c's tags), after any sequence of clicks.
C1_VisibleSetIsConjunction ==
    TwoAxis =>
        VisibleCards =
            {i \in 1..Len(projectCards) :
                /\ \/ currentFilter.type = ALL
                   \/ (projectCards[i].hasType /\ projectCards[i].type = currentFilter.type)
                /\ \/ currentFilter.tech = ALL
                   \/ \E k \in 1..Len(projectCards[i].tags) :
                         Trim(projectCards[i].tags[k]) = currentFilter.tech}

\* both axes filter, one card passes and another does not
C1_Witness ==
    /\ TwoAxis
    /\ currentFilter.type # ALL /\ currentFilter.tech # ALL
    /\ VisibleCards # {} /\ VisibleCards # 1..Len(projectCards)

\* C2: exactly one control of each axis carries 'active', and it is the control clicked
\* last on that axis, or the 'all' control when none was clicked: in the type and the tech
\* container of the two-axis controller and among the buttons of the single-axis controller.
C2_OneActivePerAxis ==
    /\ TwoAxis =>
          /\ ActiveButtons(typeFiltersContainer) = {IF lastClicked.type = 0 THEN 1 ELSE lastClicked.type}
          /\ ActiveButtons(techFiltersContainer) = {IF lastClicked.tech = 0 THEN 1 ELSE lastClicked.tech}
          /\ typeFiltersContainer[1].value = ALL /\ techFiltersContainer[1].value = ALL
    /\ (unit = "filter" /\ filterButtons # <<>>) =>
          /\ ActiveButtons(filterButtons) = {IF lastClicked.filter = 0 THEN 1 ELSE lastClicked.filter}
          /\ filterButtons[1].filter = ALL

\* a value control was clicked on each axis
C2_Witness == TwoAxis /\ lastClicked.type > 1 /\ lastClicked.tech > 1

\* C3: the empty-state indicator is displayed iff no card is visible, in every reachable
\* state of the two-axis controller, the initial one included.
C3_EmptyStateIffNoneVisible == TwoAxis => ((emptyState = "block") <=> (VisibleCards = {}))

\* C4: clicking type t then tech v gives the same page (selection, active controls, hidden
\* cards, displays) as clicking tech v then type t, from every reachable state.
C4_AxesCommute ==
    TwoAxis =>
        \A i \in 1..Len(typeFiltersContainer) : \A j \in 1..Len(techFiltersContainer) :
            clickListener(projectCards, clickListener(projectCards, Dom, "type", i), "tech", j)
              = clickListener(projectCards, clickListener(projectCards, Dom, "tech", j), "type", i)

\* both orders were possible and the page now shows a type and a tech that hide a card
C4_Witness ==
    /\ TwoAxis
    /\ lastClicked.type > 1 /\ lastClicked.tech > 1
    /\ \E i \in 1..Len(projectCards) : hidden[i]
    /\ clickListener(projectCards, Dom, "type", 1) # clickListener(projectCards, Dom, "tech", 1)

\* C5: when the type and the tech selection are both 'all', no card is hidden.
C5_AllShowsEveryCard ==
    (TwoAxis /\ currentFilter.type = ALL /\ currentFilter.tech = ALL) =>
        \A i \in 1..Len(projectCards) : ~hidden[i]

\* the 'all' control of each axis was the last one clicked, on a page with cards and values
C5_Witness ==
    /\ TwoAxis
    /\ lastClicked = [type |-> 1, tech |-> 1, filter |-> 0]
    /\ Len(typeFiltersContainer) > 1 /\ Len(techFiltersContainer) > 1
    /\ projectsGrid = "grid"

\* C6: a second pass of applyFilters with the selection unchanged changes nothing of the
\* page, and a click on a control that is already active changes neither the hidden cards
\* nor the active controls.
C6_PassIsIdempotent ==
    TwoAxis =>
        /\ applyFilters(projectCards, applyFilters(projectCards, Dom)) = applyFilters(projectCards, Dom)
        /\ \A filterType \in {"type", "tech"} :
              \A idx \in ActiveButtons(Container(Dom, filterType)) :
                  LET d == clickListener(projectCards, Dom, filterType, idx)
                  IN  /\ d.hidden = hidden
                      /\ d.typeFiltersContainer = typeFiltersContainer
                      /\ d.techFiltersContainer = techFiltersContainer

\* a pass has hidden a card and kept another
C6_Witness ==
    /\ TwoAxis
    /\ emptyState = "none"
    /\ \E i \in 1..Len(projectCards) : hidden[i]

\* C7: the selected value of each axis is 'all' or a value some card had at initialization.
C7_SelectionIsRegistered ==
    TwoAxis =>
        /\ currentFilter.type \in {ALL} \cup TypeValues
        /\ currentFilter.tech \in {ALL} \cup TechValues

\* a value is selected on each axis, the tech one read from a badge that needed trim()
C7_Witness ==
    /\ TwoAxis
    /\ currentFilter.type # ALL
    /\ currentFilter.tech = <<"x">>

\* the values of the controls after the 'all' control
ValuesAfterAll(container) == [j \in 1..(Len(container) - 1) |-> container[j + 1].value]

IsListOf(values, S) ==
    /\ {values[j] : j \in 1..Len(values)} = S
    /\ Len(values) = Cardinality(S)

\* C8: after initialization each container holds the 'all' control first and active, then
\* one inactive control per distinct non-empty value of the cards, none missing or twice.
C8_InitialControls ==
    TwoAxis =>
        /\ typeFiltersContainer[1].value = ALL /\ techFiltersContainer[1].value = ALL
        /\ IsListOf(ValuesAfterAll(typeFiltersContainer), TypeValues \ {<<>>})
        /\ IsListOf(ValuesAfterAll(techFiltersContainer), TechValues \ {<<>>})
        /\ lastClicked.type = 0 => ActiveButtons(typeFiltersContainer) = {1}
        /\ lastClicked.tech = 0 => ActiveButtons(techFiltersContainer) = {1}

\* a step in which a listener of the page runs: a click, a mouseenter, a mouseleave, a scroll
TwoAxisListener == ClickType \/ ClickTech

Listener == \/ TwoAxisListener
            \/ FilterButtonClick
            \/ PrevClick \/ NextClick \/ IndicatorClick \/ MouseEnter \/ MouseLeave
            \/ Scroll

\* the step leaves a timer, an interval or a frame callback that was not pending before it
LeavesWork ==
    \/ Len(timers') > Len(timers)
    \/ ~(intervals' \subseteq intervals)
    \/ frameRequests' > frameRequests
    \/ tickTimers' > tickTimers

\* C9 as stated: no listener leaves a timer, an interval or a frame callback behind.
C9_ListenersLeaveNoWork == [][Listener => ~LeavesWork]_vars

\* C9 as amended: a click on a control of the two-axis controller, and a mouseenter on a
\* carousel, leave no timer, interval or frame callback behind.
C9_TwoAxisLeavesNoWork == [][(TwoAxisListener \/ MouseEnter) => ~LeavesWork]_vars

\* a click of the two-axis controller has hidden a card and nothing is pending
C9_Witness ==
    /\ TwoAxis
    /\ lastClicked.type + lastClicked.tech > 0
    /\ timers = <<>>
    /\ VisibleCards # 1..Len(projectCards)

\* C10: no control has the empty string as its value, on the type axis or the tech axis.
C10_NoEmptyValueControl ==
    TwoAxis =>
        /\ \A j \in 1..Len(typeFiltersContainer) : typeFiltersContainer[j].value # <<>>
        /\ \A j \in 1..Len(techFiltersContainer) : techFiltersContainer[j].value # <<>>

\* C11: a click on a type control changes neither currentFilter.tech nor the active tech
\* control, and a click on a tech control changes neither currentFilter.type nor the active
\* type control.
C11_OtherAxisUnchanged ==
    [][/\ ClickType => /\ currentFilter'.tech = currentFilter.tech
                       /\ techFiltersContainer' = techFiltersContainer
       /\ ClickTech => /\ currentFilter'.type = currentFilter.type
                       /\ typeFiltersContainer' = typeFiltersContainer]_vars

\* a type value is selected while the tech axis keeps a value selected before it, or the
\* other way round: the controls clicked last select different cards
C11_Witness ==
    /\ TwoAxis
    /\ lastClicked.type > 1 /\ lastClicked.tech > 1
    /\ currentFilter.type # ALL /\ currentFilter.tech # ALL
    /\ VisibleCards = {}

\* C12: after every pass of applyFilters the displays are a function of the visible count:
\* none visible, the empty state is displayed and the grid is not; some visible, the grid is
\* displayed and the empty state is not.
C12_DisplayFollowsVisibleCount ==
    (TwoAxis /\ lastClicked.type + lastClicked.tech > 0) =>
        IF VisibleCards = {}
        THEN emptyState = "block" /\ projectsGrid = "none"
        ELSE emptyState = "none" /\ projectsGrid = "grid"

\* a pass has left no card visible on a page that has cards
C12_Witness ==
    /\ TwoAxis
    /\ projectCards # <<>>
    /\ VisibleCards = {}
    /\ emptyState = "block"

ParallaxQuiet == unit = "parallax" /\ frameRequests = 0 /\ tickTimers = 0

\* C18: once scrolling has stopped and every pending frame callback and timer has run,
\* the translateY written last is -(0.5 x the final page offset).
C18_FinalOffsetApplied == (ParallaxQuiet /\ transform # <<>>) => transform = <<yPos(pageYOffset)>>

\* the number of badges of the page whose trimmed text is tech
Occurrences(tech) ==
    Cardinality({p \in UNION {{<<i, k>> : k \in 1..Len(projectCards[i].tags)} : i \in 1..Len(projectCards)} :
                    Trim(projectCards[p[1]].tags[p[2]]) = tech})

\* C14: after the 'all' control the type controls are in ascending order of their values,
\* and the tech controls in non-increasing order of the number of badges with their value.
C14_ControlsInComputedOrder ==
    TwoAxis =>
        /\ \A j, k \in 2..Len(typeFiltersContainer) :
              j < k => StrLess(typeFiltersContainer[j].value, typeFiltersContainer[k].value)
        /\ \A j, k \in 2..Len(techFiltersContainer) :
              j < k => Occurrences(techFiltersContainer[j].value) >= Occurrences(techFiltersContainer[k].value)

\* two type controls, and a tech control moved ahead of the value of the first badge of the
\* page because it occurs more often
C14_Witness ==
    /\ TwoAxis
    /\ lastClicked.type = 0 /\ lastClicked.tech = 0
    /\ Len(typeFiltersContainer) = 3
    /\ Len(techFiltersContainer) >= 3
    /\ projectCards[1].tags # <<>>
    /\ Trim(projectCards[1].tags[1]) # techFiltersContainer[2].value
    /\ Occurrences(techFiltersContainer[2].value) > Occurrences(techFiltersContainer[3].value)

\* C15: in the single-axis controller, once the clicks have stopped and every timer has
\* run, a card carries 'hidden' iff it does not match the filter clicked last.
C15_SettlesOnLatestFilter ==
    (unit = "filter" /\ lastClicked.filter > 0 /\ timers = <<>>) =>
        LET filter == filterButtons[lastClicked.filter].filter
        IN  \A i \in 1..Len(techCards) :
                cardClass[i].hidden <=>
                    ~(filter = ALL \/ \E k \in 1..Len(techCards[i]) : Trim(techCards[i][k]) = filter)

\* C16: a carousel of more than one slide has at most one autoplay interval running, and
\* none right after mouseenter.
C16_OneAutoplayInterval ==
    [][unit = "carousel" => /\ Cardinality(intervals') <= 1
                            /\ MouseEnter => intervals' = {}]_vars

\* the slides that carry 'active'
ActiveSlides == {i \in 0..(slides - 1) : slideActive[i]}

\* C17: in a carousel of n > 1 slides currentSlide is in 0..n-1 and slides[currentSlide] is
\* the one slide that carries 'active'; next (a click or an autoplay tick) goes from slide
\* n-1 to slide 0 and prev from slide 0 to slide n-1.
C17_OneActiveSlide ==
    /\ []((unit = "carousel" /\ slides > 1) =>
              (currentSlide \in 0..(slides - 1) /\ ActiveSlides = {currentSlide}))
    /\ [][/\ ((NextClick \/ AutoplayTick) /\ currentSlide = slides - 1) => currentSlide' = 0
          /\ ((NextClick \/ AutoplayTick) /\ currentSlide < slides - 1) => currentSlide' = currentSlide + 1
          /\ (PrevClick /\ currentSlide = 0) => currentSlide' = slides - 1
          /\ (PrevClick /\ currentSlide > 0) => currentSlide' = currentSlide - 1]_vars

\* the last of three slides is shown after a click
C17_Witness ==
    /\ unit = "carousel"
    /\ slides = 3 /\ currentSlide = 2
    /\ nextTimerId > 2
    /\ ActiveSlides = {2}

====
